---- MODULE Spec2Model ----
(***************************************************************************)
(* A model of src/src/mock_server.rs: the mock gRPC server, its rule       *)
(* table (Arc<RwLock<Vec<RequestBuilder>>>), RequestBuilder::mount and the *)
(* dispatcher MockGrpcServer::call with the generic codec.                 *)
(*                                                                         *)
(* Option<T> is modelled as a sequence of length 0 (None) or 1 (Some).     *)
(***************************************************************************)
EXTENDS Integers, Sequences, FiniteSets, TLC

\* ------------------------------------------------------------------ bounds

\* The longest rule table the model mounts.
MaxRules == 2

\* The longest item put through the codec.
MaxLen == 3

\* ------------------------------------------------------------- input sets

\* Request paths, as sequences of characters: "a" is a proper prefix of
\* "ab" and "ab" an extension of "a".
Paths == {<<"a">>, <<"a", "b">>}

\* The status codes a rule is given with return_status.
Codes == {"Ok", "NotFound"}

\* Encoded response messages given with return_body; the second is the
\* encoding of a message whose field 1 is the string "hi".
Payloads == {<<>>, <<10, 2, 104, 105>>}

\* Request messages: the empty message, a message with field 1 = "hi",
\* and the same message cut short.
Requests == {<<>>, <<10, 2, 104, 105>>, <<10, 2, 104>>}

\* The bytes of the items put through the codec: 10 is the key of field 1,
\* length delimited; 2 and 0 are lengths (or keys of tag 0); 104 is "h".
Bytes == {0, 2, 10, 104}

\* The threads of the test that mount rules, and the calls in flight.
Mounters == {1, 2}
Callers == {1, 2}

\* The handles on the server: the one the test owns, the clone given to
\* the transport by start, and the clone returned by setup.
Handles == {"server", "service", "copy"}

\* Allocations of a rule table; 0 stands for "no allocation".
TableIds == {1, 2, 3}

None == <<>>
Some(x) == <<x>>
IsSome(o) == Len(o) = 1
IsNone(o) == Len(o) = 0
Unwrap(o) == o[1]

\* ------------------------------------------------------------------ state

VARIABLES
    rules,      \* rules[h]: the allocation handle h's `rules` Arc points to
    heap,       \* heap[t]: the Vec<RequestBuilder> behind allocation t
    started,    \* `inner` is Some: start has spawned the transport
    readers,    \* readers[t]: the calls holding a read guard on t
    writer,     \* writer[t]: the mounter holding the write guard on t, or 0
    poisoned,   \* poisoned[t]: the RwLock of t is poisoned
    mounter,    \* mounter[m]: the position and locals of a mount call
    caller,     \* caller[c]: the position and locals of a dispatched call
    returned,   \* the path of every mount call that has returned
    builder,    \* the RequestBuilder the test is configuring, if any
    codec       \* an item on its way through the encoder and the decoder

vars ==
    <<rules, heap, started, readers, writer, poisoned, mounter, caller,
      returned, builder, codec>>

\* ------------------------------------------------------------- RequestBuilder

RequestBuilder(path, status_code, result) ==
    [path |-> path, status_code |-> status_code, result |-> result]

given(path) == RequestBuilder(path, None, None)

\* return_status written as Self { status_code: Some(status),
\* ..Self::given(&self.path) }: the body set before is lost.
return_status_resets_body(self, status) ==
    [self EXCEPT !.status_code = Some(status), !.result = None]

return_status(self, status) == [self EXCEPT !.status_code = Some(status)]

return_body(self, bytes) == [self EXCEPT !.result = Some(bytes)]

\* Every value the builder can reach: given, then return_status and
\* return_body in any number and order.
Builders ==
    { RequestBuilder(p, s, r) :
        p \in Paths,
        s \in {None} \cup { Some(k) : k \in Codes },
        r \in {None} \cup { Some(b) : b \in Payloads } }

\* The test of mount: neither a status nor a body was set
\* (MountRejectsEither: the test with || in the place of &&).
MountRejectsEither(r) == IsNone(r.status_code) \/ IsNone(r.result)

\* mount without the test.
MountRejectsNothing(r) == FALSE

MountRejects(r) == IsNone(r.status_code) /\ IsNone(r.result)

\* ------------------------------------------------------------------ codes

\* tonic::Code as u32.
CodeAsU32(code) ==
    CASE code = "Ok" -> 0
      [] code = "InvalidArgument" -> 3
      [] code = "NotFound" -> 5
      [] code = "Internal" -> 13

\* ------------------------------------------------------------------ codec

\* GenericProstEncoder::encode: every byte of the item is put in a BytesMut
\* and from there in the output buffer, in order.
RECURSIVE PutAll(_, _, _)
PutAll(buf, item, i) ==
    IF i > Len(item) THEN buf
    ELSE PutAll(Append(buf, item[i] % 256), item, i + 1)

\* The same with the second copy made from the back of the BytesMut.
EncodeReversed(item) == [i \in 1..Len(item) |-> item[Len(item) + 1 - i]]

Encode(item) == PutAll(<<>>, PutAll(<<>>, item, 1), 1)

\* A base-128 varint read from position i of b: [ok, value, next].
RECURSIVE VarintFrom(_, _, _, _, _)
VarintFrom(b, i, n, shift, acc) ==
    IF i > Len(b) \/ n > 10 THEN [ok |-> FALSE, value |-> 0, next |-> i]
    ELSE IF b[i] < 128
         THEN [ok |-> n < 10 \/ b[i] < 2, value |-> acc + b[i] * shift, next |-> i + 1]
         ELSE VarintFrom(b, i + 1, n + 1, shift * 128, acc + (b[i] - 128) * shift)

DecodeVarint(b, i) == VarintFrom(b, i, 1, 1, 0)

SubBytes(b, from, len) == [k \in 1..len |-> b[from + k - 1]]

DecodeError == [ok |-> FALSE, item |-> <<>>]

\* Message::decode for Vec<u8>, the bytes wrapper message: field 1, length
\* delimited, replaces the value; any other field is skipped by wire type;
\* `groups` is the stack of the group tags being skipped.
RECURSIVE Merge(_, _, _, _)
Merge(b, i, value, groups) ==
    IF i > Len(b)
    THEN IF groups = <<>> THEN [ok |-> TRUE, item |-> value] ELSE DecodeError
    ELSE
      LET key == DecodeVarint(b, i)
          wire_type == key.value % 8
          tag == key.value \div 8
          j == key.next
          len == DecodeVarint(b, j)
      IN  IF ~key.ok \/ key.value \div 65536 >= 65536 \/ wire_type > 5 \/ tag < 1
          THEN DecodeError
          ELSE IF tag = 1 /\ groups = <<>>
          THEN IF wire_type # 2 \/ ~len.ok \/ len.next + len.value > Len(b) + 1
               THEN DecodeError
               ELSE Merge(b, len.next + len.value,
                          SubBytes(b, len.next, len.value), groups)
          ELSE CASE wire_type = 0 ->
                      IF len.ok THEN Merge(b, len.next, value, groups)
                      ELSE DecodeError
                 [] wire_type = 1 ->
                      IF j + 8 > Len(b) + 1 THEN DecodeError
                      ELSE Merge(b, j + 8, value, groups)
                 [] wire_type = 2 ->
                      IF ~len.ok \/ len.next + len.value > Len(b) + 1
                      THEN DecodeError
                      ELSE Merge(b, len.next + len.value, value, groups)
                 [] wire_type = 3 -> Merge(b, j, value, <<tag>> \o groups)
                 [] wire_type = 4 ->
                      IF groups = <<>> \/ Head(groups) # tag THEN DecodeError
                      ELSE Merge(b, j, value, Tail(groups))
                 [] wire_type = 5 ->
                      IF j + 4 > Len(b) + 1 THEN DecodeError
                      ELSE Merge(b, j + 4, value, groups)

\* GenericProstDecoder::decode: Ok(Some(item)) or the decode error.
Decode(buf) == Merge(buf, 1, <<>>, <<>>)

\* A decode error reported as the fault of the caller.
decode_error_as_invalid_argument == "InvalidArgument"

\* from_decode_error: a decode error becomes the Internal status.
from_decode_error == "Internal"

\* ---------------------------------------------------------------- helpers

\* A clone that copies the Vec into an allocation of its own (one that no
\* handle but `to` points to).
CloneDeep(hp, h, to) ==
    LET t == CHOOSE x \in TableIds : \A k \in Handles \ {to} : rules[k] # x
    IN  [ref |-> t, heap |-> [hp EXCEPT ![t] = hp[rules[h]]]]

\* #[derive(Clone)] on MockGrpcServer, with hp the allocations at the time:
\* the clone's `rules` is the same Arc, so it points to the allocation of
\* the handle it was cloned from, and no allocation changes.
Clone(hp, h, to) == [ref |-> rules[h], heap |-> hp]

\* RwLock::read is granted while no write guard is out.
CanRead(t) == writer[t] = 0

\* A write lock that does not wait for the read guards to be dropped.
CanWriteWithReaders(t) == writer[t] = 0

\* RwLock::write is granted while no guard at all is out.
CanWrite(t) == writer[t] = 0 /\ readers[t] = {}

\* A lock that is poisoned by a panic under any guard, a read guard too.
PoisonsAny(guard) == guard \in {"read", "write"}

\* A std RwLock is poisoned by a panic that unwinds through a write guard,
\* and not by one that unwinds through a read guard.
Poisons(guard) == guard = "write"

\* path.starts_with(&x.path) in the place of x.path == path.
PathStartsWith(x, path) ==
    Len(x) <= Len(path) /\ \A k \in 1..Len(x) : x[k] = path[k]

\* x.path == path, on strings.
PathEq(x, path) == x = path

\* inner.iter().find(|x| x.path == path): the index of the first rule, in
\* the order of the Vec, whose path is equal to `path`; 0 when there is none.
RECURSIVE FindFrom(_, _, _)
FindFrom(v, path, i) ==
    IF i > Len(v) THEN 0
    ELSE IF PathEq(v[i].path, path) THEN i
    ELSE FindFrom(v, path, i + 1)

\* The same scan from the back of the Vec (rfind).
RECURSIVE FindBack(_, _, _)
FindBack(v, path, i) ==
    IF i < 1 THEN 0
    ELSE IF PathEq(v[i].path, path) THEN i
    ELSE FindBack(v, path, i - 1)

FindLast(v, path) == FindBack(v, path, Len(v))

Find(v, path) == FindFrom(v, path, 1)

\* The status header without the rule's status.
StatusOfOk(r) == CodeAsU32("Ok")

\* req_builder.status_code.unwrap_or(Code::Ok) as u32
StatusOf(r) ==
    IF IsSome(r.status_code) THEN CodeAsU32(Unwrap(r.status_code))
    ELSE CodeAsU32("Ok")

Response(grpc_status, body) == [grpc_status |-> grpc_status, body |-> body]

IdleMounter ==
    [pc |-> "idle", rule |-> None, handle |-> "server", via |-> "mount",
     res |-> "none"]

\* No item in the codec.
IdleCodec == [pc |-> "idle", item |-> <<>>, buf |-> <<>>, out |-> DecodeError]

IdleCaller ==
    [pc |-> "idle", path |-> <<>>, req |-> <<>>, guard |-> 0, found |-> 0,
     body |-> None, status |-> None, resp |-> None]

\* MockGrpcServer::new: one handle, an empty rule table, nothing started.
Init ==
    /\ rules = [h \in Handles |-> IF h = "server" THEN 1 ELSE 0]
    /\ heap = [t \in TableIds |-> <<>>]
    /\ started = FALSE
    /\ readers = [t \in TableIds |-> {}]
    /\ writer = [t \in TableIds |-> 0]
    /\ poisoned = [t \in TableIds |-> FALSE]
    /\ mounter = [m \in Mounters |-> IdleMounter]
    /\ caller = [c \in Callers |-> IdleCaller]
    /\ returned = {}
    /\ builder = None
    /\ codec = IdleCodec

\* ---------------------------------------------------------------- actions

\* MockGrpcServer::start: the transport is given a clone of the server and
\* the server becomes started.
Start ==
    /\ ~started
    /\ LET cl == Clone(heap, "server", "service")
       IN  /\ rules' = [rules EXCEPT !["service"] = cl.ref]
           /\ heap' = cl.heap
    /\ started' = TRUE
    /\ UNCHANGED <<builder, codec, readers, writer, poisoned, mounter, caller, returned>>

\* The mounts under way on allocation t that have passed validation.
Mounting(t) ==
    { m \in Mounters : mounter[m].pc # "idle" /\ rules[mounter[m].handle] = t }

\* mount with the push made before the test of the builder.
MountCallPushesFirst(m, h, via, r) ==
    /\ mounter[m].pc = "idle"
    /\ rules[h] # 0
    /\ IF MountRejects(r)
       THEN /\ mounter' = [mounter EXCEPT ![m] =
                    [pc |-> "idle", rule |-> Some(r), handle |-> h,
                     via |-> "mount", res |-> "InvalidRule"]]
            /\ heap' = [heap EXCEPT ![rules[h]] = Append(@, r)]
       ELSE /\ Len(heap[rules[h]]) + Cardinality(Mounting(rules[h])) < MaxRules
            /\ mounter' = [mounter EXCEPT ![m] =
                    [pc |-> "write", rule |-> Some(r), handle |-> h,
                     via |-> via, res |-> "pending"]]
            /\ heap' = heap
    /\ UNCHANGED <<builder, codec, rules, started, readers, writer, poisoned, caller,
                   returned>>

\* RequestBuilder::mount (via = "mount") or MockGrpcServer::setup
\* (via = "setup") is called with builder r on handle h: a builder with
\* neither a status nor a body panics in the caller, before the table is
\* touched; any other goes on to take the write lock.
MountCall(m, h, via, r) ==
    /\ mounter[m].pc = "idle"
    /\ rules[h] # 0
    /\ IF MountRejects(r)
       THEN mounter' = [mounter EXCEPT ![m] =
                [pc |-> "idle", rule |-> Some(r), handle |-> h,
                 via |-> "mount", res |-> "InvalidRule"]]
       ELSE /\ Len(heap[rules[h]]) + Cardinality(Mounting(rules[h])) < MaxRules
            /\ mounter' = [mounter EXCEPT ![m] =
                [pc |-> "write", rule |-> Some(r), handle |-> h, via |-> via,
                 res |-> "pending"]]
    /\ UNCHANGED <<builder, codec, rules, heap, started, readers, writer, poisoned, caller,
                   returned>>

\* s.rules.write().unwrap(): the write guard is granted, and unwrap panics
\* on a poisoned lock.
MountLock(m) ==
    /\ mounter[m].pc = "write"
    /\ CanWrite(rules[mounter[m].handle])
    /\ IF poisoned[rules[mounter[m].handle]]
       THEN /\ mounter' = [mounter EXCEPT ![m] =
                    [IdleMounter EXCEPT !.res = "Poisoned",
                                        !.handle = mounter[m].handle]]
            /\ writer' = writer
       ELSE /\ mounter' = [mounter EXCEPT ![m].pc = "push"]
            /\ writer' = [writer EXCEPT ![rules[mounter[m].handle]] = m]
    /\ UNCHANGED <<builder, codec, rules, heap, started, readers, poisoned, caller, returned>>

\* mount with insert(0, self) in the place of push(self).
MountPushFront(m) ==
    /\ mounter[m].pc = "push"
    /\ LET t == rules[mounter[m].handle]
           r == Unwrap(mounter[m].rule)
           pushed == [heap EXCEPT ![t] = <<r>> \o heap[t]]
           cl == Clone(pushed, mounter[m].handle, "copy")
       IN  /\ writer' = [writer EXCEPT ![t] = 0]
           /\ returned' = returned \cup {r.path}
           /\ IF mounter[m].via = "setup"
              THEN /\ rules' = [rules EXCEPT !["copy"] = cl.ref]
                   /\ heap' = cl.heap
              ELSE /\ rules' = rules
                   /\ heap' = pushed
    /\ mounter' = [mounter EXCEPT ![m] =
            [IdleMounter EXCEPT !.res = "Ok", !.handle = mounter[m].handle]]
    /\ UNCHANGED <<builder, codec, started, readers, poisoned, caller>>

\* .push(self), the guard is dropped and mount returns; setup then returns
\* a clone of the server.
MountPush(m) ==
    /\ mounter[m].pc = "push"
    /\ LET t == rules[mounter[m].handle]
           r == Unwrap(mounter[m].rule)
           pushed == [heap EXCEPT ![t] = Append(heap[t], r)]
           cl == Clone(pushed, mounter[m].handle, "copy")
       IN  /\ writer' = [writer EXCEPT ![t] = 0]
           /\ returned' = returned \cup {r.path}
           /\ IF mounter[m].via = "setup"
              THEN /\ rules' = [rules EXCEPT !["copy"] = cl.ref]
                   /\ heap' = cl.heap
              ELSE /\ rules' = rules
                   /\ heap' = pushed
    /\ mounter' = [mounter EXCEPT ![m] =
            [IdleMounter EXCEPT !.res = "Ok", !.handle = mounter[m].handle]]
    /\ UNCHANGED <<builder, codec, started, readers, poisoned, caller>>

\* MockGrpcServer::call up to the read guard: the transport hands a request
\* for `path` with message `req` to the service, which takes the read lock;
\* unwrap panics on a poisoned lock.
CallBegin(c, path, req) ==
    /\ started
    /\ caller[c].pc \in {"idle", "done", "panicked"}
    /\ CanRead(rules["service"])
    /\ IF poisoned[rules["service"]]
       THEN /\ caller' = [caller EXCEPT ![c] =
                    [IdleCaller EXCEPT !.pc = "panicked", !.path = path,
                                       !.req = req]]
            /\ readers' = readers
       ELSE /\ caller' = [caller EXCEPT ![c] =
                    [IdleCaller EXCEPT !.pc = "locked", !.path = path,
                                       !.req = req,
                                       !.guard = rules["service"]]]
            /\ readers' = [readers EXCEPT ![rules["service"]] = @ \cup {c}]
    /\ UNCHANGED <<builder, codec, rules, heap, started, writer, poisoned, mounter, returned>>

\* A call whose futures keep the read guard (the guard moved into the
\* async block): it is dropped only by the panic.
CallLookupKeepsGuard(c) ==
    /\ caller[c].pc = "locked"
    /\ LET t == caller[c].guard
           i == Find(heap[t], caller[c].path)
       IN  /\ readers' = IF i = 0 THEN [readers EXCEPT ![t] = @ \ {c}]
                         ELSE readers
           /\ poisoned' = [poisoned EXCEPT ![t] = @ \/ (i = 0 /\ Poisons("read"))]
           /\ caller' = [caller EXCEPT ![c] =
                IF i = 0
                THEN [@ EXCEPT !.pc = "panicked", !.guard = 0]
                ELSE IF IsSome(heap[t][i].result)
                THEN [@ EXCEPT !.pc = "unary", !.found = i,
                               !.body = Some(Unwrap(heap[t][i].result))]
                ELSE [@ EXCEPT !.pc = "empty", !.found = i,
                               !.status = Some(StatusOf(heap[t][i]))]]
    /\ UNCHANGED <<builder, codec, rules, heap, started, writer, mounter,
                   returned>>

\* A lookup that takes the matched rule out of the Vec (a rule that answers
\* once).
CallLookupConsumes(c) ==
    /\ caller[c].pc = "locked"
    /\ LET t == caller[c].guard
           i == Find(heap[t], caller[c].path)
       IN  /\ readers' = [readers EXCEPT ![t] = @ \ {c}]
           /\ poisoned' = [poisoned EXCEPT ![t] = @ \/ (i = 0 /\ Poisons("read"))]
           /\ heap' = IF i = 0 THEN heap
                      ELSE [heap EXCEPT ![t] =
                              SubSeq(@, 1, i - 1) \o SubSeq(@, i + 1, Len(@))]
           /\ caller' = [caller EXCEPT ![c] =
                IF i = 0
                THEN [@ EXCEPT !.pc = "panicked", !.guard = 0]
                ELSE IF IsSome(heap[t][i].result)
                THEN [@ EXCEPT !.pc = "unary", !.guard = 0, !.found = i,
                               !.body = Some(Unwrap(heap[t][i].result))]
                ELSE [@ EXCEPT !.pc = "empty", !.guard = 0, !.found = i,
                               !.status = Some(StatusOf(heap[t][i]))]]
    /\ UNCHANGED <<builder, codec, rules, started, writer, mounter, returned>>

\* The rest of MockGrpcServer::call: the lookup, and either the future that
\* serves the body, the future that serves the status alone, or the panic;
\* the read guard is dropped when the function is left, by return or unwind.
CallLookup(c) ==
    /\ caller[c].pc = "locked"
    /\ LET t == caller[c].guard
           i == Find(heap[t], caller[c].path)
       IN  /\ readers' = [readers EXCEPT ![t] = @ \ {c}]
           /\ poisoned' = [poisoned EXCEPT ![t] = @ \/ (i = 0 /\ Poisons("read"))]
           /\ caller' = [caller EXCEPT ![c] =
                IF i = 0
                THEN [@ EXCEPT !.pc = "panicked", !.guard = 0]
                ELSE IF IsSome(heap[t][i].result)
                THEN [@ EXCEPT !.pc = "unary", !.guard = 0, !.found = i,
                               !.body = Some(Unwrap(heap[t][i].result))]
                ELSE [@ EXCEPT !.pc = "empty", !.guard = 0, !.found = i,
                               !.status = Some(StatusOf(heap[t][i]))]]
    /\ UNCHANGED <<builder, codec, rules, heap, started, writer, mounter, returned>>

\* The future of the body branch: Grpc::unary decodes the request with the
\* generic codec, calls SvcGeneric, which ignores the request and answers
\* the body, and encodes that; a request that does not decode is answered
\* with the status of from_decode_error.
UnaryRespond(c) ==
    /\ caller[c].pc = "unary"
    /\ caller' = [caller EXCEPT ![c] =
            [@ EXCEPT !.pc = "done", !.body = None,
                      !.resp = Some(
                         IF Decode(caller[c].req).ok
                         THEN Response(CodeAsU32("Ok"),
                                       Encode(Unwrap(caller[c].body)))
                         ELSE Response(CodeAsU32(from_decode_error), <<>>))]]
    /\ UNCHANGED <<builder, codec, rules, heap, started, readers, writer, poisoned, mounter,
                   returned>>

\* The future of the branch without a body: the builder with the
\* grpc-status header and an empty body.
EmptyRespond(c) ==
    /\ caller[c].pc = "empty"
    /\ caller' = [caller EXCEPT ![c] =
            [@ EXCEPT !.pc = "done", !.status = None,
                      !.resp = Some(Response(Unwrap(caller[c].status), <<>>))]]
    /\ UNCHANGED <<builder, codec, rules, heap, started, readers, writer, poisoned, mounter,
                   returned>>

\* ---------------------------------------------------------- specifications

\* One test thread and one call at a time on the server's own handle, with
\* every builder and every request.
Next ==
    \/ Start
    \/ \E r \in Builders : MountCall(1, "server", "mount", r)
    \/ MountLock(1)
    \/ MountPush(1)
    \/ \E path \in Paths, req \in Requests : CallBegin(1, path, req)
    \/ CallLookup(1)
    \/ UnaryRespond(1)
    \/ EmptyRespond(1)

Spec == Init /\ [][Next]_vars

\* The builders of the two specifications below: for each path a rule with
\* a status alone and a rule with a status and a body.
FewBuilders ==
    { b \in Builders :
        /\ b.status_code = Some("NotFound")
        /\ b.result \in {None, Some(<<10, 2, 104, 105>>)} }

\* One test thread that mounts through mount and setup, on the server's own
\* handle and on the clone setup returns, before and after start.
NextShared ==
    \/ Start
    \/ \E h \in {"server", "copy"}, via \in {"mount", "setup"},
          r \in FewBuilders \cup {given(<<"a">>)} :
          MountCall(1, h, via, r)
    \/ MountLock(1)
    \/ MountPush(1)
    \/ \E path \in Paths : CallBegin(1, path, <<>>)
    \/ CallLookup(1)
    \/ UnaryRespond(1)
    \/ EmptyRespond(1)

SpecShared == Init /\ [][NextShared]_vars

\* Two test threads that mount and two calls in flight, in any interleaving
\* of their steps.
NextConc ==
    \/ Start
    \/ \E m \in Mounters, r \in FewBuilders : MountCall(m, "server", "mount", r)
    \/ \E m \in Mounters : MountLock(m)
    \/ \E m \in Mounters : MountPush(m)
    \/ \E c \in Callers, path \in Paths : CallBegin(c, path, <<>>)
    \/ \E c \in Callers : CallLookup(c)
    \/ \E c \in Callers : UnaryRespond(c)
    \/ \E c \in Callers : EmptyRespond(c)

SpecConc == Init /\ [][NextConc]_vars

\* ------------------------------------------------------------------ claims

\* The rule table as the dispatcher sees it, and the rule a call matched.
ServiceTable == heap[rules["service"]]
RuleOf(c) == ServiceTable[caller[c].found]
WellFormed(c) == Decode(caller[c].req).ok
Answered(c) == caller[c].pc = "done"
RespOf(c) == Unwrap(caller[c].resp)
Matches(v, path) == { i \in 1..Len(v) : v[i].path = path }
MinOf(S) == CHOOSE x \in S : \A y \in S : x <= y
LookupStep(c) == caller[c].pc = "locked" /\ caller'[c].pc # "locked"

\* C1: every well-formed call that matches a rule R is answered with R's
\* status when R has one and with OK when it has none, whether or not R has
\* a payload.
C1_StatusIsRuleStatus ==
    \A c \in Callers :
        (Answered(c) /\ WellFormed(c)) =>
            RespOf(c).grpc_status =
                IF IsSome(RuleOf(c).status_code)
                THEN CodeAsU32(Unwrap(RuleOf(c).status_code))
                ELSE CodeAsU32("Ok")

\* C2: every well-formed call that matches a rule with a payload is
\* answered with a body that is the rule's payload, byte for byte, whatever
\* the request message was.
C2_BodyIsRulePayload ==
    \A c \in Callers :
        (Answered(c) /\ WellFormed(c) /\ IsSome(RuleOf(c).result)) =>
            RespOf(c).body = Unwrap(RuleOf(c).result)

C2_Witness ==
    \E c \in Callers :
        /\ Answered(c)
        /\ caller[c].req = <<10, 2, 104, 105>>
        /\ RuleOf(c).result = Some(<<10, 2, 104, 105>>)
        /\ RespOf(c).body = <<10, 2, 104, 105>>

\* C3: a lookup for a path that no rule of the table has panics, and a call
\* that has panicked has no response and never gets one.
C3_NoRuleAborts ==
    [][\A c \in Callers :
          /\ (LookupStep(c) /\ Matches(ServiceTable, caller[c].path) = {}) =>
                caller'[c].pc = "panicked"
          /\ caller'[c].pc = "panicked" => caller'[c].resp = None
          /\ caller[c].pc = "panicked" =>
                caller'[c].pc \in {"panicked", "locked"}]_vars

C3_Witness ==
    \E c \in Callers :
        /\ caller[c].pc = "panicked"
        /\ caller[c].path = <<"a", "b">>
        /\ caller[c].resp = None
        /\ Len(ServiceTable) > 0
        /\ ServiceTable[1].path = <<"a">>

\* C4: a mount call with a builder that has neither a status nor a payload
\* fails with InvalidRule in the call itself; with any other builder it goes
\* on, and it returns only as a success that has appended the builder to the
\* table.
C4_MountOutcome ==
    [][\A m \in Mounters :
          /\ (mounter[m].pc = "idle" /\ mounter'[m] # mounter[m]) =>
                LET r == Unwrap(mounter'[m].rule)
                IN  IF IsNone(r.status_code) /\ IsNone(r.result)
                    THEN mounter'[m].pc = "idle" /\ mounter'[m].res = "InvalidRule"
                    ELSE mounter'[m].pc = "write" /\ mounter'[m].res = "pending"
          /\ mounter[m].pc = "write" => mounter'[m].pc \in {"write", "push"}
          /\ mounter[m].pc = "push" => mounter'[m].pc \in {"push", "idle"}
          /\ (mounter[m].pc = "push" /\ mounter'[m].pc = "idle") =>
                LET t == rules[mounter[m].handle]
                IN  /\ mounter'[m].res = "Ok"
                    /\ heap'[t] = Append(heap[t], Unwrap(mounter[m].rule))]_vars

C4_Witness ==
    /\ mounter[1].res = "InvalidRule"
    /\ Len(heap[rules["server"]]) = 2
    /\ \E i, j \in 1..2 :
          /\ IsNone(heap[rules["server"]][i].result)
          /\ IsNone(heap[rules["server"]][j].status_code)

\* C5: a mount call that fails with InvalidRule changes nothing but the
\* outcome its caller sees: the allocations, their locks, every call in
\* flight and every other mount are as they were, and the caller is free to
\* mount again.
C5_FailedMountChangesNothing ==
    [][\A m \in Mounters :
          (/\ mounter[m].pc = "idle"
           /\ mounter'[m] # mounter[m]
           /\ mounter'[m].res = "InvalidRule") =>
              /\ UNCHANGED <<builder, codec, rules, heap, started, readers, writer, poisoned,
                             caller, returned>>
              /\ mounter'[m].pc = "idle"
              /\ \A o \in Mounters \ {m} : mounter'[o] = mounter[o]]_vars

C5_Witness ==
    /\ mounter[1].res = "InvalidRule"
    /\ Len(heap[rules["server"]]) > 0
    /\ Answered(1)

\* C6: a call that matched was matched by the first rule, in mount order,
\* whose path is equal to the requested path, and what it captured for the
\* response is that rule's, however many rules were mounted since.
C6_FirstMatchWins ==
    \A c \in Callers :
        caller[c].pc \in {"unary", "empty", "done"} =>
            /\ Matches(ServiceTable, caller[c].path) # {}
            /\ caller[c].found = MinOf(Matches(ServiceTable, caller[c].path))
            /\ caller[c].pc = "unary" => Some(Unwrap(caller[c].body)) = RuleOf(c).result
            /\ caller[c].pc = "empty" => IsNone(RuleOf(c).result)

C6_Witness ==
    \E c \in Callers :
        /\ Answered(c)
        /\ Len(ServiceTable) = 2
        /\ ServiceTable[1].path = caller[c].path
        /\ ServiceTable[2].path = caller[c].path
        /\ ServiceTable[1] # ServiceTable[2]
        /\ caller[c].found = 1

\* C7: a call that matches a rule with a status and no payload is answered
\* with that status and an empty body.
C7_StatusOnlyRule ==
    \A c \in Callers :
        (Answered(c) /\ IsSome(RuleOf(c).status_code) /\ IsNone(RuleOf(c).result)) =>
            RespOf(c) = Response(CodeAsU32(Unwrap(RuleOf(c).status_code)), <<>>)

C7_Witness ==
    \E c \in Callers :
        /\ Answered(c)
        /\ RuleOf(c) = return_status(given(caller[c].path), "NotFound")
        /\ RespOf(c) = Response(5, <<>>)

\* What the rule r is to answer a well-formed call with.
Configured(r) ==
    Response(IF IsSome(r.status_code) THEN CodeAsU32(Unwrap(r.status_code))
             ELSE CodeAsU32("Ok"),
             IF IsSome(r.result) THEN Unwrap(r.result) ELSE <<>>)

InFlight(c) == caller[c].pc \in {"locked", "unary", "empty"}

\* C8: a call that is answered while another call, to another mounted path,
\* is in flight is answered with the status and the payload of the first
\* rule of its own path.
C8_EachCallItsOwnRule ==
    [][\A c \in Callers : \A o \in Callers \ {c} :
          (/\ InFlight(c) /\ caller'[c].pc = "done"
           /\ WellFormed(c)
           /\ InFlight(o)
           /\ caller[o].path # caller[c].path
           /\ Matches(ServiceTable, caller[o].path) # {}) =>
              Unwrap(caller'[c].resp) =
                  Configured(ServiceTable[MinOf(Matches(ServiceTable,
                                                        caller[c].path))])]_vars

\* C9: a lookup for a path for which a mount call has returned, through
\* whichever handle and before or after start, finds a rule with that path.
C9_MountedIsFound ==
    [][\A c \in Callers :
          (LookupStep(c) /\ caller[c].path \in returned) =>
              /\ caller'[c].pc \in {"unary", "empty"}
              /\ caller'[c].found \in 1..Len(ServiceTable)
              /\ ServiceTable[caller'[c].found].path = caller[c].path]_vars

C9_Witness ==
    /\ Answered(1)
    /\ Len(ServiceTable) = 2
    /\ caller[1].found = 2
    /\ mounter[1].pc = "idle"
    /\ mounter[1].res = "Ok"
    /\ mounter[1].handle = "copy"

\* C10: on every allocation at most one mount is between taking and
\* dropping the write guard, and while one is, no call is between taking
\* and dropping a read guard; so no lookup runs during a push.
C10_ReadersOrOneWriter ==
    \A t \in TableIds :
        LET W == { m \in Mounters :
                     mounter[m].pc = "push" /\ rules[mounter[m].handle] = t }
            R == { c \in Callers :
                     caller[c].pc = "locked" /\ caller[c].guard = t }
        IN  /\ Cardinality(W) <= 1
            /\ W # {} => R = {}
            /\ W = (IF writer[t] = 0 THEN {} ELSE {writer[t]})
            /\ R = readers[t]

C10_Witness ==
    /\ mounter[1].pc = "push"
    /\ mounter[2].pc = "write"
    /\ \E c \in Callers : caller[c].pc = "panicked"

\* C11 as stated: every answered call whose message does not decode has the
\* Internal status, whether the matched rule has a payload or not.
C11_UndecodableIsInternal ==
    \A c \in Callers :
        (Answered(c) /\ ~WellFormed(c)) =>
            RespOf(c).grpc_status = CodeAsU32("Internal")

\* C11 amended: a call whose message does not decode and whose matched rule
\* has a payload is answered, with the Internal status and an empty body;
\* the step changes nothing but that call, so the table, its lock and every
\* other call are as they were and later calls are served from the table.
C11_UndecodableWithPayloadIsInternal ==
    [][\A c \in Callers :
          /\ caller[c].pc = "unary" => caller'[c].pc \in {"unary", "done"}
          /\ (caller[c].pc = "unary" /\ caller'[c].pc = "done" /\ ~WellFormed(c)) =>
                /\ caller'[c].resp = Some(Response(13, <<>>))
                /\ UNCHANGED <<rules, heap, started, readers, writer, poisoned,
                               mounter, returned>>
                /\ \A o \in Callers \ {c} : caller'[o] = caller[o]]_vars

C11_Witness ==
    \E c \in Callers :
        /\ Answered(c)
        /\ caller[c].req = <<10, 2, 104>>
        /\ IsSome(RuleOf(c).result)
        /\ RespOf(c) = Response(13, <<>>)
        /\ ~poisoned[rules["service"]]

\* ------------------------------------------------------ the codec on its own

serverVars ==
    <<rules, heap, started, readers, writer, poisoned, mounter, caller,
      returned, builder>>

Items == UNION { [1..n -> Bytes] : n \in 0..MaxLen }

\* An item is handed to the codec.
CodecItem(b) ==
    /\ codec.pc \in {"idle", "decoded"}
    /\ codec' = [IdleCodec EXCEPT !.pc = "item", !.item = b]
    /\ UNCHANGED serverVars

\* GenericProstEncoder::encode writes the item to the buffer.
CodecEncode ==
    /\ codec.pc = "item"
    /\ codec' = [codec EXCEPT !.pc = "encoded", !.buf = Encode(codec.item)]
    /\ UNCHANGED serverVars

\* GenericProstDecoder::decode reads the buffer.
CodecDecode ==
    /\ codec.pc = "encoded"
    /\ codec' = [codec EXCEPT !.pc = "decoded", !.out = Decode(codec.buf)]
    /\ UNCHANGED serverVars

NextCodec ==
    \/ \E b \in Items : CodecItem(b)
    \/ CodecEncode
    \/ CodecDecode

SpecCodec == Init /\ [][NextCodec]_vars

\* C12: the decoder gives back every item the encoder wrote.
C12_RoundTrip ==
    codec.pc = "decoded" => (codec.out.ok /\ codec.out.item = codec.item)

\* ------------------------------------------------------------ the rule table

HasStatusOrPayload(r) == IsSome(r.status_code) \/ IsSome(r.result)

\* C13: every rule of every table has a status, a payload or both, and so
\* has every rule a call has matched.
C13_TableRulesValid ==
    /\ \A t \in TableIds : \A i \in 1..Len(heap[t]) :
          HasStatusOrPayload(heap[t][i])
    /\ \A c \in Callers :
          caller[c].pc \in {"unary", "empty", "done"} =>
              HasStatusOrPayload(RuleOf(c))

C13_Witness ==
    /\ Answered(1)
    /\ caller[1].found = 2
    /\ Len(ServiceTable) = 2
    /\ mounter[1].res = "InvalidRule"

\* C14: no step of a call (taking the read guard, the lookup with any of its
\* three outcomes, either response) changes a table or the table a handle
\* points to.
C14_DispatchLeavesTable ==
    [][caller' # caller => UNCHANGED <<heap, rules>>]_vars

C14_Witness ==
    /\ caller[1].pc = "panicked"
    /\ Answered(2)
    /\ caller[2].path # caller[1].path
    /\ IsSome(RuleOf(2).result)
    /\ Len(ServiceTable) = 2

\* C15: a table changes only in the push of a mount that returns Ok, and
\* then by that mount's rule added at its end; every other step leaves
\* every table as it was, so each table is a prefix of all its later values.
C15_AppendOnly ==
    [][\A t \in TableIds :
          \/ heap'[t] = heap[t]
          \/ \E m \in Mounters :
                /\ mounter[m].pc = "push"
                /\ rules[mounter[m].handle] = t
                /\ mounter'[m].pc = "idle"
                /\ mounter'[m].res = "Ok"
                /\ heap'[t] = Append(heap[t], Unwrap(mounter[m].rule))
                /\ SubSeq(heap'[t], 1, Len(heap[t])) = heap[t]]_vars

C15_Witness ==
    /\ Len(heap[rules["server"]]) = 2
    /\ heap[rules["server"]][1] # heap[rules["server"]][2]
    /\ mounter[1].res = "Ok"
    /\ mounter[2].res = "Ok"
    /\ \E c \in Callers : Answered(c)

\* ------------------------------------------------------------- fair scheduling

\* A mount is waiting in write() on allocation t.
WriterWaiting(t) ==
    \E m \in Mounters : mounter[m].pc = "write" /\ rules[mounter[m].handle] = t

\* The steps of SpecConc under a lock that is fair to writers: read() is not
\* granted while a mount waits in write().
NextFair ==
    \/ Start
    \/ \E m \in Mounters, r \in FewBuilders : MountCall(m, "server", "mount", r)
    \/ \E m \in Mounters : MountLock(m)
    \/ \E m \in Mounters : MountPush(m)
    \/ \E c \in Callers, path \in Paths :
          ~WriterWaiting(rules["service"]) /\ CallBegin(c, path, <<>>)
    \/ \E c \in Callers : CallLookup(c)
    \/ \E c \in Callers : UnaryRespond(c)
    \/ \E c \in Callers : EmptyRespond(c)

\* call and mount are synchronous code: once the guard is taken the lookup
\* and the push run to their end, and a lock that is free again and again is
\* granted to a waiting mount.  The two futures wait for the peer, so
\* nothing makes them run.
Fairness ==
    /\ \A m \in Mounters : SF_vars(MountLock(m)) /\ WF_vars(MountPush(m))
    /\ \A c \in Callers : WF_vars(CallLookup(c))

SpecFair == Init /\ [][NextFair]_vars /\ Fairness

Given(path) ==
    /\ builder' = Some(given(path))
    /\ UNCHANGED <<codec, rules, heap, started, readers, writer, poisoned,
                   mounter, caller, returned>>

\* b = b.return_status(status)
ReturnStatus(status) ==
    /\ IsSome(builder)
    /\ builder' = Some(return_status(Unwrap(builder), status))
    /\ UNCHANGED <<codec, rules, heap, started, readers, writer, poisoned,
                   mounter, caller, returned>>

\* b = b.return_body(|| message), bytes the encoding of the message.
ReturnBody(bytes) ==
    /\ IsSome(builder)
    /\ builder' = Some(return_body(Unwrap(builder), bytes))
    /\ UNCHANGED <<codec, rules, heap, started, readers, writer, poisoned,
                   mounter, caller, returned>>

\* b.mount(&mut server): MountCall with the builder of the test, which is
\* moved into the call.
Mount(m) ==
    /\ IsSome(builder)
    /\ mounter[m].pc = "idle"
    /\ IF MountRejects(Unwrap(builder))
       THEN mounter' = [mounter EXCEPT ![m] =
                [pc |-> "idle", rule |-> builder, handle |-> "server",
                 via |-> "mount", res |-> "InvalidRule"]]
       ELSE /\ Len(heap[rules["server"]])
                 + Cardinality(Mounting(rules["server"])) < MaxRules
            /\ mounter' = [mounter EXCEPT ![m] =
                [pc |-> "write", rule |-> builder, handle |-> "server",
                 via |-> "mount", res |-> "pending"]]
    /\ builder' = None
    /\ UNCHANGED <<codec, rules, heap, started, readers, writer, poisoned,
                   caller, returned>>

\* One test thread that builds its rules step by step and mounts them.
NextBuilder ==
    \/ \E path \in Paths : Given(path)
    \/ \E status \in Codes : ReturnStatus(status)
    \/ \E bytes \in Payloads : ReturnBody(bytes)
    \/ Mount(1)
    \/ MountLock(1)
    \/ MountPush(1)

SpecBuilder == Init /\ [][NextBuilder]_vars

\* C18: a step that changes the builder is the mount that consumes it, or
\* a given that yields a rule with its path and neither status nor payload,
\* or a return_status that changes the status alone, or a return_body that
\* changes the payload alone, and the last three leave the tables and the
\* mounts as they are; for the builder at hand return_status and
\* return_body commute and a repeated step keeps the last value; a table
\* changes only in the push of a mount, never in a step of the builder.
C18_BuilderStepsOwnField ==
    /\ [][builder' # builder =>
            \/ /\ builder' = None
               /\ UNCHANGED <<rules, heap>>
               /\ \E m \in Mounters :
                     mounter[m].pc = "idle" /\ mounter'[m].rule = builder
            \/ /\ UNCHANGED <<rules, heap, started, readers, writer,
                              poisoned, mounter, caller, returned>>
               /\ IsSome(builder')
               /\ LET new == Unwrap(builder')
                  IN  \/ /\ new.path \in Paths
                         /\ IsNone(new.status_code)
                         /\ IsNone(new.result)
                      \/ /\ IsSome(builder)
                         /\ IsSome(new.status_code)
                         /\ new.path = Unwrap(builder).path
                         /\ new.result = Unwrap(builder).result
                      \/ /\ IsSome(builder)
                         /\ IsSome(new.result)
                         /\ new.path = Unwrap(builder).path
                         /\ new.status_code = Unwrap(builder).status_code]_vars
    /\ [][heap' # heap =>
            /\ builder' = builder
            /\ \E m \in Mounters :
                  mounter[m].pc = "push" /\ mounter'[m].pc = "idle"]_vars
    /\ [](IsSome(builder) =>
            LET b == Unwrap(builder)
            IN  \A k \in Codes, k2 \in Codes, x \in Payloads, x2 \in Payloads :
                  /\ return_body(return_status(b, k), x)
                        = return_status(return_body(b, x), k)
                  /\ return_status(return_status(b, k), k2)
                        = return_status(b, k2)
                  /\ return_body(return_body(b, x), x2) = return_body(b, x2)
                  /\ return_status(b, k).status_code = Some(k)
                  /\ return_body(b, x).result = Some(x))

C18_Witness ==
    /\ builder = Some(RequestBuilder(<<"a", "b">>, Some("NotFound"),
                                     Some(<<10, 2, 104, 105>>)))
    /\ Len(heap[rules["server"]]) = 1
    /\ heap[rules["server"]][1] = RequestBuilder(<<"a">>, Some("Ok"), None)
    /\ mounter[1].res = "Ok"

====
